---------------------------- MODULE Spec2Model ----------------------------
(***************************************************************************)
(* A model of afsutil: the command runner `run` with its retry loop        *)
(* (afsutil/system.py), the path finder `which`, the symlink helpers       *)
(* `symlink` and `_so_symlinks`, the platform-dispatched host facts, and   *)
(* the `rebuild` script (afsutil/build.py).                                *)
(*                                                                         *)
(* Every subsystem has its own specification (SpecRun, SpecSymlink,        *)
(* SpecSo, SpecWhich, SpecOs, SpecBuild).  A specification moves only the  *)
(* variables of its subsystem and leaves the others at their idle value.   *)
(***************************************************************************)
EXTENDS Integers, Sequences, FiniteSets, TLC

VARIABLES
    \* ---- run (system.py 45-75)
    rpc,        \* position inside run: idle, head, sleep, cleanup, spawn, check, returned, raised
    rin,        \* the call's parameters: [cmd, args, retry, cleanup]
    argv,       \* local `args` after args.insert(0, cmd)
    attempt,    \* loop variable of `for attempt in xrange(0, retry + 1)`
    locals,     \* [bound, rc, output, error]: the locals rc, output, error
    events,     \* what the call did so far, in order: "spawn", "sleep", "cleanup"
    attempts,   \* the outcome of every child process spawned so far, in order
    result,     \* how the call ended: [kind, value, exc]
    \* ---- symlink, _so_symlinks (system.py 253-277)
    fs,         \* the directory: name -> entry
    fs0,        \* the directory as it was when the last operation started
    fsop,       \* the last operations, newest last (at most two)
    fdir,       \* how the caller spells the directory in the paths it passes
    fcalls,     \* the number of operations made so far
    \* ---- which (system.py 77-98)
    win,        \* the call's inputs and environment
    wout,       \* the call's outcome
    \* ---- host facts and module load (system.py 145-232, 279-302)
    os,         \* the module's load state: [uname, load, error, bound, conf]
    fact,       \* the last host-facts call: [op, impl, utilOk, parsable, raised, value]
    \* ---- rebuild (build.py 29-74)
    bld         \* [pc, in, env, cwd, origdir, cf, target, ran, codes, exit]

runVars == <<rpc, rin, argv, attempt, locals, events, attempts, result>>
fsVars == <<fs, fs0, fsop, fdir, fcalls>>
whichVars == <<win, wout>>
osVars == <<os, fact>>
bldVars == <<bld>>
vars == <<runVars, fsVars, whichVars, osVars, bldVars>>
notRunVars == <<fsVars, whichVars, osVars, bldVars>>
notFsVars == <<runVars, whichVars, osVars, bldVars>>
notWhichVars == <<runVars, fsVars, osVars, bldVars>>
notOsVars == <<runVars, fsVars, whichVars, bldVars>>
notBldVars == <<runVars, fsVars, whichVars, osVars>>

(***************************************************************************)
(* Bounds of the model.                                                    *)
(***************************************************************************)
MaxRetry == 2
MaxCalls == 2
MaxPathLen == 3

\* Python's None, where a string or a list of strings is expected, and where a
\* list of paths is expected
None == <<"None">>
NoneList == <<<<"None">>>>
Unbound == "<unbound>"

(***************************************************************************)
(* Idle values: what a subsystem's variables hold in the specifications of *)
(* the other subsystems.                                                   *)
(***************************************************************************)
RunIdle ==
    /\ rpc = "idle"
    /\ rin = [cmd |-> "", args |-> None, retry |-> 0, cleanup |-> FALSE]
    /\ argv = <<>>
    /\ attempt = 0
    /\ locals = [bound |-> FALSE, rc |-> 0, output |-> Unbound, error |-> Unbound]
    /\ events = <<>>
    /\ attempts = <<>>
    /\ result = [kind |-> "none"]

FsIdle == fs = <<>> /\ fs0 = <<>> /\ fsop = <<>> /\ fdir = <<>> /\ fcalls = 0

WhichIdle == win = <<>> /\ wout = <<>>

OsIdle == os = <<>> /\ fact = <<>>

BldIdle == bld = <<>>

(***************************************************************************)
(* run(cmd, args=None, quiet=False, retry=0, wait=1, cleanup=None)         *)
(***************************************************************************)
Cmds == {"false", "/bin/ls"}
ArgLists == {None, <<>>, <<"/bin">>}
ExitCodes == {0, 1, 2}
Outputs == {"out-a", "out-b"}
Errors == {"err-a", "err-b"}

\* lines 50-54: args = [] or list(args); args.insert(0, cmd)
Argv(cmd, args) == <<cmd>> \o (IF args = None THEN <<>> ELSE args)

\* line 55: xrange(0, retry + 1)
LoopRangeBugShort(retry) == 0 .. (retry - 1)
LoopRange(retry) == 0 .. retry

\* line 56: if attempt > 0
IsRetryBugAlways(a) == a >= 0
IsRetry(a) == a > 0

\* line 73: if rc == 0
IsSuccess(rc) == rc = 0

\* lines 70-71: output,error = proc.communicate(); rc = proc.returncode
\* (the locals are rebound by every attempt)
CommunicateBugKeepFirst(old, child) ==
    IF old.bound THEN old
    ELSE [bound |-> TRUE, rc |-> child.rc, output |-> child.out, error |-> child.err]
Communicate(old, child) ==
    [bound |-> TRUE, rc |-> child.rc, output |-> child.out, error |-> child.err]

\* line 74: return output
ReturnValueBugFirst(l, log) == log[1].out
ReturnValue(l, log) == l.output

\* lines 31-38: CommandFailed.__init__
CommandFailed(cmd, args, code, out, err) ==
    [cmd |-> cmd, args |-> args, code |-> code, out |-> out, err |-> err]

\* lines 45-55: the call, up to the first evaluation of the loop head
RunCall ==
    /\ rpc = "idle"
    /\ \E c \in Cmds, a \in ArgLists, n \in 0 .. MaxRetry, cl \in BOOLEAN :
          /\ rin' = [cmd |-> c, args |-> a, retry |-> n, cleanup |-> cl]
          /\ argv' = Argv(c, a)
    /\ attempt' = 0
    /\ rpc' = "head"
    /\ UNCHANGED <<locals, events, attempts, result, notRunVars>>

\* lines 55-56: the loop takes its next value; a retry goes through the sleep
RunIter ==
    /\ rpc = "head"
    /\ attempt \in LoopRange(rin.retry)
    /\ rpc' = IF IsRetry(attempt) THEN "sleep" ELSE "spawn"
    /\ UNCHANGED <<rin, argv, attempt, locals, events, attempts, result, notRunVars>>

\* lines 57-60: time.sleep(wait), then `if cleanup:`
RunSleep ==
    /\ rpc = "sleep"
    /\ events' = Append(events, "sleep")
    /\ rpc' = IF rin.cleanup THEN "cleanup" ELSE "spawn"
    /\ UNCHANGED <<rin, argv, attempt, locals, attempts, result, notRunVars>>

\* line 61: cleanup()
RunCleanup ==
    /\ rpc = "cleanup"
    /\ events' = Append(events, "cleanup")
    /\ rpc' = "spawn"
    /\ UNCHANGED <<rin, argv, attempt, locals, attempts, result, notRunVars>>

\* lines 62-72: Popen and communicate; the child's outcome is the environment's
RunSpawn ==
    /\ rpc = "spawn"
    /\ \E code \in ExitCodes, o \in Outputs, e \in Errors :
          LET child == [rc |-> code, out |-> o, err |-> e] IN
          /\ attempts' = Append(attempts, child)
          /\ locals' = Communicate(locals, child)
    /\ events' = Append(events, "spawn")
    /\ rpc' = "check"
    /\ UNCHANGED <<rin, argv, attempt, result, notRunVars>>

\* lines 73-74: if rc == 0: return output
RunReturn ==
    /\ rpc = "check"
    /\ IsSuccess(locals.rc)
    /\ result' = [kind |-> "return", value |-> ReturnValue(locals, attempts)]
    /\ rpc' = "returned"
    /\ UNCHANGED <<rin, argv, attempt, locals, events, attempts, notRunVars>>

\* line 73 false: back to the loop head with the next value
RunContinue ==
    /\ rpc = "check"
    /\ ~IsSuccess(locals.rc)
    /\ attempt' = attempt + 1
    /\ rpc' = "head"
    /\ UNCHANGED <<rin, argv, locals, events, attempts, result, notRunVars>>

\* line 75: the loop is exhausted; raise CommandFailed(cmd, args, rc, output, error)
\* (rc, output and error are unbound when the loop body never ran: NameError)
RunRaise ==
    /\ rpc = "head"
    /\ attempt \notin LoopRange(rin.retry)
    /\ result' = IF locals.bound
                 THEN [kind |-> "CommandFailed",
                       exc |-> CommandFailed(rin.cmd, argv, locals.rc,
                                             locals.output, locals.error)]
                 ELSE [kind |-> "NameError"]
    /\ rpc' = "raised"
    /\ UNCHANGED <<rin, argv, attempt, locals, events, attempts, notRunVars>>

RunNext ==
    \/ RunCall
    \/ RunIter
    \/ RunSleep
    \/ RunCleanup
    \/ RunSpawn
    \/ RunReturn
    \/ RunContinue
    \/ RunRaise

RunInit == RunIdle /\ FsIdle /\ WhichIdle /\ OsIdle /\ BldIdle

SpecRun == RunInit /\ [][RunNext]_vars

\* counting the events of a call
RECURSIVE Count(_, _)
Count(s, x) ==
    IF s = <<>> THEN 0
    ELSE (IF s[1] = x THEN 1 ELSE 0) + Count(Tail(s), x)

Spawns == Count(events, "spawn")
Sleeps == Count(events, "sleep")
Cleanups == Count(events, "cleanup")
AllFailed == \A i \in 1 .. Len(attempts) : attempts[i].rc # 0

Last(s) == s[Len(s)]
RunEnded == rpc \in {"returned", "raised"}

\* C1: for every retry count n >= 0, a call whose every attempt exits non-zero
\* spawns the command exactly n+1 times and sleeps exactly n times, and only
\* then raises CommandFailed; it never returns, never raises earlier, and never
\* stops before the raise.
C1_FailingRunMakesRetryPlusOneAttempts ==
    (rpc # "idle" /\ AllFailed) =>
        /\ Spawns <= rin.retry + 1
        /\ Sleeps <= rin.retry
        /\ rpc # "returned"
        /\ rpc = "raised" =>
              /\ result.kind = "CommandFailed"
              /\ Spawns = rin.retry + 1
              /\ Sleeps = rin.retry
              /\ Last(events) = "spawn"
        /\ rpc # "raised" => ENABLED RunNext

C1_Witness ==
    /\ rpc = "raised"
    /\ rin.retry = MaxRetry
    /\ Spawns = MaxRetry + 1
    /\ Sleeps = MaxRetry

C1_WitnessDefault ==
    rpc = "raised" /\ rin.retry = 0 /\ Spawns = 1 /\ Sleeps = 0

\* C2: if the attempts 1..k exit non-zero and attempt k+1 exits 0 (k <= retry),
\* run returns the stdout of attempt k+1, raises nothing, and does nothing
\* (no spawn, sleep or cleanup) after attempt k+1.
C2_ReturnsOutputOfFirstSuccess ==
    /\ rpc = "returned" =>
          /\ result.kind = "return"
          /\ Len(attempts) \in 1 .. (rin.retry + 1)
          /\ Last(attempts).rc = 0
          /\ \A i \in 1 .. (Len(attempts) - 1) : attempts[i].rc # 0
          /\ result.value = Last(attempts).out
          /\ Last(events) = "spawn"
          /\ Spawns = Len(attempts)
          /\ ~ENABLED RunNext
    /\ \A i \in 1 .. Len(attempts) :
          attempts[i].rc = 0 =>
              /\ i = Len(attempts)
              /\ rpc \in {"check", "returned"}
              /\ Last(events) = "spawn"
              /\ rpc = "check" => ENABLED RunReturn /\ ~ENABLED RunContinue

C2_Witness ==
    /\ rpc = "returned"
    /\ Len(attempts) = 2
    /\ rin.retry = 2
    /\ attempts[1].out # attempts[2].out
    /\ result.value = attempts[2].out

\* C3: when a cleanup action is passed, it is invoked exactly once before each
\* retry attempt and never before the first one: every cleanup call comes after
\* a failed attempt and its sleep and is followed by the spawn of the next
\* attempt, so after every spawn, and when the call ends, the number of cleanup
\* calls is the number of spawns minus one.  Without a cleanup action there is
\* no cleanup call.
SpawnsBefore(i) == Count(SubSeq(events, 1, i), "spawn")

C3_CleanupOnceBeforeEachRetry ==
    /\ rin.cleanup =>
          /\ events # <<>> => events[1] = "spawn"
          /\ \A i \in 1 .. Len(events) :
                /\ events[i] = "cleanup" =>
                      /\ i >= 3
                      /\ events[i - 1] = "sleep"
                      /\ events[i - 2] = "spawn"
                      /\ attempts[SpawnsBefore(i)].rc # 0
                      /\ IF i < Len(events) THEN events[i + 1] = "spawn"
                         ELSE rpc = "spawn"
                /\ (events[i] = "spawn" /\ i > 1) => events[i - 1] = "cleanup"
          /\ (events # <<>> /\ Last(events) = "spawn") => Cleanups = Spawns - 1
          /\ RunEnded => Cleanups = Spawns - 1
    /\ ~rin.cleanup => Cleanups = 0

C3_Witness ==
    /\ rin.cleanup
    /\ RunEnded
    /\ Spawns = 3
    /\ Cleanups = 2

\* C4: whenever run raises CommandFailed, the exception's code is non-zero,
\* its code, out and err are those of the last attempt made, and its args are
\* the full argument vector with the program as element 0.
C4_CommandFailedCarriesLastAttempt ==
    rpc = "raised" =>
        /\ result.kind = "CommandFailed"
        /\ result.exc.code # 0
        /\ result.exc.code = Last(attempts).rc
        /\ result.exc.out = Last(attempts).out
        /\ result.exc.err = Last(attempts).err
        /\ result.exc.cmd = rin.cmd
        /\ result.exc.args[1] = rin.cmd
        /\ Tail(result.exc.args) = (IF rin.args = None THEN <<>> ELSE rin.args)

C4_Witness ==
    /\ rpc = "raised"
    /\ Len(attempts) = 3
    /\ attempts[1].rc # attempts[3].rc
    /\ attempts[1].out # attempts[3].out
    /\ attempts[2].err # attempts[3].err
    /\ Len(result.exc.args) = 2


(***************************************************************************)
(* The file system seen by symlink and _so_symlinks: one directory.        *)
(* A name is the sequence of the dot-separated components of a file name   *)
(* (foo.so.1.0.0 is <<"foo", "so", "1", "0", "0">>); a path is a directory *)
(* (a sequence of components, absolute when it starts with "/") and a      *)
(* name.  The directory is TheDir; the process runs in Cwd, so that the    *)
(* caller may spell the directory absolutely or relative to Cwd.  Paths    *)
(* that lead anywhere else name nothing.                                   *)
(***************************************************************************)
Cwd == <<"/", "tmp">>
TheDir == <<"/", "tmp", "d">>
DirSpellings == {<<"/", "tmp", "d">>, <<"d">>}

IsAbs(d) == d # <<>> /\ d[1] = "/"
\* os.path.join(path, dirent)
Join(d, n) == [dir |-> d, name |-> n]

Absent == [kind |-> "absent", to |-> <<>>]
RegularFile == [kind |-> "file", to |-> <<>>]
Directory == [kind |-> "dir", to |-> <<>>]
LinkTo(p) == [kind |-> "link", to |-> p]

\* where the path p leads when it is interpreted in the directory `base`
Locate(base, p) == IF IsAbs(p.dir) THEN p.dir ELSE base \o p.dir

\* lstat: the entry a path names, symlinks not followed
Lstat(f, base, p) ==
    IF Locate(base, p) = TheDir /\ p.name \in DOMAIN f THEN f[p.name] ELSE Absent

\* stat: the kind of the entry a path leads to, symlinks followed; a symlink's
\* target is interpreted in the directory that holds the symlink; a dangling
\* symlink and a symlink loop lead to nothing
RECURSIVE StatFrom(_, _, _, _)
StatFrom(f, base, p, fuel) ==
    LET e == Lstat(f, base, p) IN
    IF e.kind # "link" THEN e.kind
    ELSE IF fuel = 0 THEN "absent"
    ELSE StatFrom(f, TheDir, e.to, fuel - 1)

Stat(f, p) == StatFrom(f, Cwd, p, Cardinality(DOMAIN f))

\* the name in the directory that a path leads to, symlinks followed
\* (<<"?">> when it leads nowhere in the directory)
NoName == <<"?">>
RECURSIVE FinalFrom(_, _, _, _)
FinalFrom(f, base, p, fuel) ==
    LET e == Lstat(f, base, p) IN
    IF e.kind = "absent" THEN NoName
    ELSE IF e.kind # "link" THEN p.name
    ELSE IF fuel = 0 THEN NoName
    ELSE FinalFrom(f, TheDir, e.to, fuel - 1)

FinalName(f, p) == FinalFrom(f, Cwd, p, Cardinality(DOMAIN f))

IsFile(f, p) == Stat(f, p) = "file"          \* os.path.isfile
IsDir(f, p) == Stat(f, p) = "dir"            \* os.path.isdir
Exists(f, p) == Stat(f, p) # "absent"        \* os.path.exists
IsLink(f, p) == Lstat(f, Cwd, p).kind = "link"   \* os.path.islink

\* os.remove(dst) and os.symlink(src, dst) on a path of the directory
OsRemove(f, p) == [f EXCEPT ![p.name] = Absent]
OsSymlink(f, src, dst) == [f EXCEPT ![dst.name] = LinkTo(src)]

\* a symlink that does not remove an existing symlink first: os.symlink then
\* raises OSError (EEXIST)
SymlinkBugNoRemove(f, src, dst) ==
    IF ~IsFile(f, src) THEN [fs |-> f, raised |-> "AssertionError"]
    ELSE IF Exists(f, dst) /\ ~IsLink(f, dst) THEN [fs |-> f, raised |-> "AssertionError"]
    ELSE IF IsLink(f, dst) THEN [fs |-> f, raised |-> "OSError"]
    ELSE [fs |-> OsSymlink(f, src, dst), raised |-> "no"]
\* symlink(src, dst), lines 253-262: the directory afterwards and the error
\* raised, if any
Symlink(f, src, dst) ==
    IF ~IsFile(f, src) THEN [fs |-> f, raised |-> "AssertionError"]
    ELSE IF Exists(f, dst) /\ ~IsLink(f, dst) THEN [fs |-> f, raised |-> "AssertionError"]
    ELSE [fs |-> OsSymlink(IF IsLink(f, dst) THEN OsRemove(f, dst) ELSE f, src, dst),
          raised |-> "no"]

\* the entries a directory may hold when its names are `names`: nothing, a
\* regular file, a subdirectory, or a symlink whose target is one of `targets`
Entries(targets) == {Absent, RegularFile, Directory} \cup {LinkTo(t) : t \in targets}

KeepLast(ops, op) == IF Len(ops) < 2 THEN Append(ops, op) ELSE <<ops[2], op>>

(***************************************************************************)
(* SpecSymlink: calls of symlink(src, dst) on a directory in any state.    *)
(***************************************************************************)
SymNames == {<<"xyzzy">>, <<"plugh">>, <<"sub">>}

SymInit ==
    /\ fs \in [SymNames -> Entries({Join(TheDir, n) : n \in SymNames})]
    /\ fs0 = fs
    /\ fsop = <<>>
    /\ fdir \in DirSpellings
    /\ fcalls = 0
    /\ RunIdle /\ WhichIdle /\ OsIdle /\ BldIdle

SymlinkCall ==
    /\ fcalls < MaxCalls
    /\ \E s \in SymNames, d \in SymNames :
          LET src == Join(fdir, s)
              dst == Join(fdir, d)
              r == Symlink(fs, src, dst)
          IN /\ fs' = r.fs
             /\ fs0' = fs
             /\ fsop' = KeepLast(fsop, [op |-> "symlink", src |-> src, dst |-> dst,
                                        raised |-> r.raised,
                                        srcWas |-> Lstat(fs, Cwd, src),
                                        dstWas |-> Lstat(fs, Cwd, dst)])
    /\ fcalls' = fcalls + 1
    /\ UNCHANGED <<fdir, notFsVars>>

SymNext == SymlinkCall

SpecSymlink == SymInit /\ [][SymNext]_vars

\* the precondition of an idempotent replace: src is a regular file and dst is
\* absent or a symlink
Replaces(op) ==
    /\ op.op = "symlink"
    /\ op.srcWas.kind = "file"
    /\ op.dstWas.kind \in {"absent", "link"}

\* C5: symlink(src, dst) with src an existing regular file is an idempotent
\* replace: a call made when dst is absent or is a symlink succeeds and leaves
\* dst a symlink pointing at src (and nothing else changed), so two calls in a
\* row with the same arguments both succeed, the second leaving the directory
\* as the first left it; a call made when dst exists and is not a symlink
\* raises AssertionError and leaves the directory unchanged.
C5_SymlinkIsIdempotentReplace ==
    fsop # <<>> =>
        LET op == Last(fsop) IN
        /\ Replaces(op) =>
              /\ op.raised = "no"
              /\ fs[op.dst.name] = LinkTo(op.src)
              /\ \A n \in DOMAIN fs : n # op.dst.name => fs[n] = fs0[n]
        /\ (op.srcWas.kind = "file" /\ op.dstWas.kind \in {"file", "dir"}) =>
              /\ op.raised = "AssertionError"
              /\ fs = fs0
        /\ (Len(fsop) = 2 /\ Replaces(fsop[1])
              /\ fsop[2].src = fsop[1].src /\ fsop[2].dst = fsop[1].dst) =>
              /\ fsop[1].raised = "no"
              /\ fsop[2].raised = "no"
              /\ fs = fs0
              /\ fs[op.dst.name] = LinkTo(op.src)

C5_Witness ==
    /\ Len(fsop) = 2
    /\ Replaces(fsop[1])
    /\ fsop[1].dstWas.kind = "link"
    /\ fsop[1].dstWas # LinkTo(fsop[1].src)
    /\ fsop[2].src = fsop[1].src
    /\ fsop[2].dst = fsop[1].dst
    /\ fsop[2].raised = "no"

C5_WitnessRefused ==
    /\ fsop # <<>>
    /\ Last(fsop).srcWas.kind = "file"
    /\ Last(fsop).dstWas.kind = "file"
    /\ Last(fsop).src # Last(fsop).dst
    /\ Last(fsop).raised = "AssertionError"


(***************************************************************************)
(* _so_symlinks(path), lines 264-277.                                      *)
(***************************************************************************)
Digits == {"0", "1", "2", "3", "4", "5", "6", "7", "8", "9"}

\* line 272: re.match(r'(.+\.so)\.(\d+)\.(\d+)\.(\d+)$', fname) on the joined
\* path: the name ends in ".so" and three numbers (the directory part of the
\* path lets `.+` match even when nothing precedes ".so" in the name itself)
SoMatch(n) ==
    /\ Len(n) >= 5
    /\ n[Len(n) - 3] = "so"
    /\ \A i \in (Len(n) - 2) .. Len(n) : n[i] \in Digits

\* lines 274-277: the names of the three symlinks of a matching name, in the
\* order they are made: so.x.y, so.x, so
SoLinkNames(n) ==
    <<SubSeq(n, 1, Len(n) - 1), SubSeq(n, 1, Len(n) - 2), SubSeq(n, 1, Len(n) - 3)>>

\* lines 275-277: the symlink calls of one entry; the first that raises ends them
RECURSIVE SymlinkAll(_, _, _)
SymlinkAll(f, src, dsts) ==
    IF dsts = <<>> THEN [fs |-> f, raised |-> "no"]
    ELSE LET r == Symlink(f, src, Join(src.dir, dsts[1])) IN
         IF r.raised # "no" THEN r ELSE SymlinkAll(r.fs, src, Tail(dsts))

\* lines 269-277: the loop body for one directory entry
SoBody(f, path, dirent) ==
    LET fname == Join(path, dirent) IN
    IF IsDir(f, fname) \/ IsLink(f, fname) THEN [fs |-> f, raised |-> "no"]
    ELSE IF SoMatch(dirent) THEN SymlinkAll(f, fname, SoLinkNames(dirent))
    ELSE [fs |-> f, raised |-> "no"]

\* line 268: the loop over os.listdir(path), in the order it lists the entries
RECURSIVE SoLoop(_, _, _)
SoLoop(f, path, listing) ==
    IF listing = <<>> THEN [fs |-> f, raised |-> "no"]
    ELSE LET r == SoBody(f, path, listing[1]) IN
         IF r.raised # "no" THEN r ELSE SoLoop(r.fs, path, Tail(listing))

\* os.listdir(path): the names of the entries, in any order
RECURSIVE Orders(_)
Orders(S) ==
    IF S = {} THEN {<<>>}
    ELSE UNION {{<<x>> \o t : t \in Orders(S \ {x})} : x \in S}

ListDir(f) == Orders({n \in DOMAIN f : f[n].kind # "absent"})

(***************************************************************************)
(* SpecSo: one call of _so_symlinks on a directory in any state.           *)
(***************************************************************************)
SoVersions == {<<"foo", "so", "1", "0", "0">>, <<"foo", "so", "1", "0", "1">>}
SoNames == SoVersions \cup {<<"foo", "so", "1", "0">>, <<"foo", "so", "1">>, <<"foo", "so">>}

\* the entries of fs0 that the call makes symlinks for
Versioned(f) == {n \in DOMAIN f : f[n].kind = "file" /\ SoMatch(n)}
InSeq(x, s) == \E i \in 1 .. Len(s) : s[i] = x
Derives(n, l) == InSeq(l, SoLinkNames(n))
IsVersioned(n) == n \in Versioned(fs)

SoInit ==
    /\ fs \in [SoNames -> Entries({Join(TheDir, n) : n \in SoVersions})]
    /\ fs0 = fs
    /\ fsop = <<>>
    /\ fdir \in DirSpellings
    /\ fcalls = 0
    /\ RunIdle /\ WhichIdle /\ OsIdle /\ BldIdle

SoSymlinksCall ==
    /\ fcalls = 0
    /\ \E listing \in ListDir(fs) :
          LET r == SoLoop(fs, fdir, listing) IN
          /\ fs' = r.fs
          /\ fsop' = <<[op |-> "so", raised |-> r.raised,
                        listed |-> SelectSeq(listing, IsVersioned)]>>
    /\ fs0' = fs
    /\ fcalls' = fcalls + 1
    /\ UNCHANGED <<fdir, notFsVars>>

SoNext == SoSymlinksCall

SpecSo == SoInit /\ [][SoNext]_vars


SoReturned == fsop # <<>> /\ Last(fsop).op = "so" /\ Last(fsop).raised = "no"
SoRaised == fsop # <<>> /\ Last(fsop).op = "so" /\ Last(fsop).raised # "no"
RealKinds == {"file", "dir"}

\* the versioned regular files that derive the symlink name l
Derivers(f, l) == {m \in Versioned(f) : Derives(m, l)}
Pos(x, s) == CHOOSE i \in 1 .. Len(s) : s[i] = x
\* the one of them that os.listdir listed last
LastListed(S, listing) ==
    CHOOSE m \in S : \A o \in S : Pos(o, listing) <= Pos(m, listing)

\* C6 as claimed: after _so_symlinks(directory) returns, for every entry that
\* was a non-directory, non-symlink file named <base>.so.<x>.<y>.<z> when the
\* call started, the names <base>.so.<x>.<y>, <base>.so.<x> and <base>.so are
\* symlinks that resolve to that entry, and no pre-existing real file has been
\* overwritten.
C6_EveryVersionedFileGetsItsThreeSymlinks ==
    SoReturned =>
        /\ \A n \in Versioned(fs0) : \A l \in DOMAIN fs :
              Derives(n, l) =>
                  /\ fs[l].kind = "link"
                  /\ FinalName(fs, Join(TheDir, l)) = n
        /\ \A m \in DOMAIN fs : fs0[m].kind \in RealKinds => fs[m] = fs0[m]

\* what the code does in place of C6: after _so_symlinks(directory) returns, each of the three names
\* derived from a versioned regular file is a symlink whose target is the path
\* (the directory as the caller spelled it, joined with the entry's name) of
\* the versioned regular file, among those deriving that name, that os.listdir
\* listed last; the name resolves to the entry when no other versioned file
\* derives it and the directory was given as an absolute path.  Pre-existing
\* symlinks of those names are overwritten, every other entry is left as it
\* was, and no pre-existing real file is overwritten: the call raises
\* AssertionError exactly when a derived name is a real file or directory.
C6_SymlinksPointAtLastListedVersion ==
    /\ SoReturned =>
          /\ \A n \in Versioned(fs0) : \A l \in DOMAIN fs :
                Derives(n, l) =>
                    /\ fs[l] = LinkTo(Join(fdir, LastListed(Derivers(fs0, l),
                                                            Last(fsop).listed)))
                    /\ (Derivers(fs0, l) = {n} /\ IsAbs(fdir)) =>
                          FinalName(fs, Join(TheDir, l)) = n
          /\ \A m \in DOMAIN fs : fs0[m].kind \in RealKinds => fs[m] = fs0[m]
          /\ \A m \in DOMAIN fs : Derivers(fs0, m) = {} => fs[m] = fs0[m]
    /\ SoRaised =>
          /\ Last(fsop).raised = "AssertionError"
          /\ \A m \in DOMAIN fs : fs0[m].kind \in RealKinds => fs[m] = fs0[m]
    /\ (fsop # <<>> /\ Last(fsop).op = "so") =>
          (SoRaised <=> \E l \in DOMAIN fs :
                            Derivers(fs0, l) # {} /\ fs0[l].kind \in RealKinds)

C6_Witness ==
    /\ SoReturned
    /\ IsAbs(fdir)
    /\ Cardinality(Versioned(fs0)) = 1
    /\ fs0[<<"foo", "so">>].kind = "link"
    /\ fs0[<<"foo", "so", "1">>].kind = "absent"
    /\ \E n \in Versioned(fs0) :
          /\ fs0[<<"foo", "so">>] # LinkTo(Join(fdir, n))
          /\ \A l \in DOMAIN fs : Derives(n, l) => FinalName(fs, Join(TheDir, l)) = n

C6_WitnessTwoVersions ==
    /\ SoReturned
    /\ Cardinality(Versioned(fs0)) = 2
    /\ fs[<<"foo", "so">>].kind = "link"


(***************************************************************************)
(* which(program, extra_paths=None, raise_errors=False), lines 77-98.      *)
(* A string is a sequence of tokens: a directory ("/bin"), a file name     *)
(* ("ls"), the separators "/" and ":" and the quote character.             *)
(***************************************************************************)
Sep == "/"
PathSep == ":"
Quote == "\""

\* line 79: os.path.split(program): the part before the last "/" and the part
\* after it
RECURSIVE LastIndexOf(_, _)
LastIndexOf(s, x) ==
    IF s = <<>> THEN 0
    ELSE IF s[Len(s)] = x THEN Len(s)
    ELSE LastIndexOf(SubSeq(s, 1, Len(s) - 1), x)

OsPathSplit(program) ==
    LET i == LastIndexOf(program, Sep) IN
    [dirname |-> SubSeq(program, 1, i - 1),
     basename |-> SubSeq(program, i + 1, Len(program))]

\* line 88: str.split(os.pathsep)
RECURSIVE StrSplit(_, _)
StrSplit(s, sep) ==
    LET i == LastIndexOf(s, sep) IN
    IF i = 0 THEN <<s>>
    ELSE Append(StrSplit(SubSeq(s, 1, i - 1), sep), SubSeq(s, i + 1, Len(s)))

\* line 92: path.strip('"')
RECURSIVE StripLeft(_, _)
StripLeft(s, c) ==
    IF s # <<>> /\ s[1] = c THEN StripLeft(Tail(s), c) ELSE s
RECURSIVE StripRight(_, _)
StripRight(s, c) ==
    IF s # <<>> /\ s[Len(s)] = c THEN StripRight(SubSeq(s, 1, Len(s) - 1), c) ELSE s
Strip(s, c) == StripRight(StripLeft(s, c), c)

\* line 93: os.path.join(path, program), program being relative
OsPathJoin(path, program) ==
    IF path = <<>> THEN program ELSE path \o <<Sep>> \o program

\* lines 82, 94: os.path.isfile(p) and os.access(p, os.X_OK); `files` gives
\* the kind of each path that names something: "exec" (an executable regular
\* file), "file" (a regular file without the x bit), "dir" (a searchable
\* directory)
KindOf(files, p) == IF p \in DOMAIN files THEN files[p] ELSE "absent"
OsIsFile(files, p) == KindOf(files, p) \in {"exec", "file"}
OsAccessX(files, p) == KindOf(files, p) \in {"exec", "dir"}

\* lines 88-90: paths = os.environ['PATH'].split(os.pathsep), then
\* `if extra_paths: paths = paths + extra_paths`
WhichPathsBugExtraFirst(path, extra) ==
    IF extra # NoneList /\ extra # <<>> THEN extra \o StrSplit(path, PathSep)
    ELSE StrSplit(path, PathSep)
WhichPaths(path, extra) ==
    IF extra # NoneList /\ extra # <<>> THEN StrSplit(path, PathSep) \o extra
    ELSE StrSplit(path, PathSep)

\* lines 91-95: the search loop: the joined path of the first hit, or None
RECURSIVE WhichSearch(_, _, _)
WhichSearch(paths, program, files) ==
    IF paths = <<>> THEN None
    ELSE LET fpath == OsPathJoin(Strip(paths[1], Quote), program) IN
         IF OsIsFile(files, fpath) /\ OsAccessX(files, fpath) THEN fpath
         ELSE WhichSearch(Tail(paths), program, files)

\* lines 77-98
Which(program, extra, raiseErrors, path, files) ==
    IF OsPathSplit(program).dirname # <<>>
    THEN IF OsIsFile(files, program) /\ OsAccessX(files, program)
         THEN [kind |-> "return", value |-> program]
         ELSE IF raiseErrors THEN [kind |-> "AssertionError", value |-> None]
         ELSE [kind |-> "return", value |-> None]
    ELSE LET found == WhichSearch(WhichPaths(path, extra), program, files) IN
         IF found # None THEN [kind |-> "return", value |-> found]
         ELSE IF raiseErrors THEN [kind |-> "AssertionError", value |-> None]
         ELSE [kind |-> "return", value |-> None]

(***************************************************************************)
(* SpecWhich: one call of which in any environment.                        *)
(***************************************************************************)
RECURSIVE SeqsUpTo(_, _)
SeqsUpTo(S, n) ==
    IF n = 0 THEN {<<>>}
    ELSE LET shorter == SeqsUpTo(S, n - 1) IN
         shorter \cup {Append(t, x) : t \in shorter, x \in S}

BinLs == <<"/bin", Sep, "ls">>
AfsLs == <<"/afs", Sep, "ls">>
CwdLs == <<"ls">>
WhichPrograms == {<<"ls">>, AfsLs}
WhichEnvPaths == SeqsUpTo({"/bin", "/afs", PathSep, Quote}, MaxPathLen)
WhichExtras == {NoneList, <<>>, <<<<"/afs">>>>, <<<<Quote, "/bin", Quote>>>>}
WhichFiles ==
    {(BinLs :> a) @@ (AfsLs :> b) @@ (CwdLs :> c) :
        a \in {"absent", "file", "exec", "dir"},
        b \in {"absent", "file", "exec", "dir"},
        c \in {"absent", "exec"}}

WhichInit ==
    /\ win \in [program : WhichPrograms, extra : WhichExtras, raiseErrors : BOOLEAN,
                path : WhichEnvPaths, files : WhichFiles]
    /\ wout = <<>>
    /\ RunIdle /\ FsIdle /\ OsIdle /\ BldIdle

WhichCall ==
    /\ wout = <<>>
    /\ wout' = Which(win.program, win.extra, win.raiseErrors, win.path, win.files)
    /\ UNCHANGED <<win, notWhichVars>>

WhichNext == WhichCall

SpecWhich == WhichInit /\ [][WhichNext]_vars

\* what the claim speaks of: the directories searched, the PATH entries first
\* and the caller's extra paths after them, each without its quotes
EnvDirs == StrSplit(win.path, PathSep)
ExtraDirs == IF win.extra = NoneList THEN <<>> ELSE win.extra
SearchDirs == [i \in 1 .. (Len(EnvDirs) + Len(ExtraDirs)) |->
                  Strip(IF i <= Len(EnvDirs) THEN EnvDirs[i]
                        ELSE ExtraDirs[i - Len(EnvDirs)], Quote)]
Executable(p) == KindOf(win.files, p) = "exec"
Holds(i) == Executable(OsPathJoin(SearchDirs[i], win.program))
HasDirPart == \E i \in 1 .. Len(win.program) : win.program[i] = Sep
NotFound == IF win.raiseErrors THEN [kind |-> "AssertionError", value |-> None]
            ELSE [kind |-> "return", value |-> None]

\* C7: for a name without a directory part, which searches the PATH entries
\* first and the caller's extra paths after them and returns the joined path
\* of the first directory that holds an executable file of that name (a PATH
\* hit wins over an extra-path hit), or None when no directory holds one; for
\* a name with a directory part it returns the name unchanged when it is an
\* executable file and None otherwise; with raise_errors every None outcome is
\* an AssertionError instead.
C7_WhichReturnsFirstHitPathBeforeExtras ==
    wout # <<>> =>
        /\ ~HasDirPart =>
              /\ \A i \in 1 .. Len(SearchDirs) :
                    (Holds(i) /\ \A j \in 1 .. (i - 1) : ~Holds(j)) =>
                        wout = [kind |-> "return",
                                value |-> OsPathJoin(SearchDirs[i], win.program)]
              /\ (\E i \in 1 .. Len(EnvDirs) : Holds(i)) =>
                    \E i \in 1 .. Len(EnvDirs) :
                        wout.value = OsPathJoin(SearchDirs[i], win.program)
              /\ (\A i \in 1 .. Len(SearchDirs) : ~Holds(i)) => wout = NotFound
        /\ HasDirPart =>
              wout = IF Executable(win.program)
                     THEN [kind |-> "return", value |-> win.program]
                     ELSE NotFound

C7_Witness ==
    /\ wout # <<>>
    /\ ~HasDirPart
    /\ win.extra = <<<<"/afs">>>>
    /\ Executable(AfsLs)
    /\ Executable(BinLs)
    /\ win.path = <<Quote, "/bin", Quote>>
    /\ wout = [kind |-> "return", value |-> BinLs]

C7_WitnessExtraHit ==
    /\ wout # <<>>
    /\ win.extra = <<<<"/afs">>>>
    /\ win.path = <<"/bin">>
    /\ wout = [kind |-> "return", value |-> AfsLs]


(***************************************************************************)
(* Module load (lines 290-302) and the host facts (lines 145-232,          *)
(* 279-288).  The output of a utility is a sequence of lines drawn from    *)
(* the lines such a utility prints; a regular expression is the table of   *)
(* what it extracts from each of them.                                     *)
(***************************************************************************)
NoMatch == "<no match>"
Unames == {"Linux", "SunOS", "Darwin"}
FactNames == {"network_interfaces", "is_loaded", "configure_dynamic_linker", "unload_module"}

\* the module-level names bound when line 302 is reached (imports, logger,
\* the class, the functions and _uname) and the builtins the line uses
ModuleGlobals ==
    {"logging", "os", "re", "subprocess", "time", "logger", "CommandFailed", "run",
     "which", "file_should_exist", "directory_should_exist",
     "directory_should_not_exist", "get_running", "is_running", "afs_mountpoint",
     "_linux_network_interfaces", "_linux_is_loaded",
     "_linux_configure_dynamic_linker", "_linux_unload_module",
     "_solaris_network_interfaces", "_solaris_is_loaded", "mkdirp", "cat", "touch",
     "symlink", "_so_symlinks", "_solaris_configure_dynamic_linker",
     "_solaris_unload_module", "_uname"}
Builtins == {"AssertionError"}

\* line 302: raise AssertionError("Unsupported operating system: %s" % (uname));
\* evaluating the operand looks up each name it uses
RaiseUnsupported(names) ==
    IF \A n \in names : n \in ModuleGlobals \cup Builtins
    THEN "AssertionError: Unsupported operating system"
    ELSE "NameError"

\* lines 291-300: the four names and what they are bound to
LinuxBinding ==
    [n \in FactNames |->
        CASE n = "network_interfaces" -> "_linux_network_interfaces"
          [] n = "is_loaded" -> "_linux_is_loaded"
          [] n = "configure_dynamic_linker" -> "_linux_configure_dynamic_linker"
          [] n = "unload_module" -> "_linux_unload_module"]
SolarisBinding ==
    [n \in FactNames |->
        CASE n = "network_interfaces" -> "_solaris_network_interfaces"
          [] n = "is_loaded" -> "_solaris_is_loaded"
          [] n = "configure_dynamic_linker" -> "_solaris_configure_dynamic_linker"
          [] n = "unload_module" -> "_solaris_unload_module"]

\* a run that hands back the output whatever the exit code was
RunOnceBugIgnoresExit(child) ==
    IF ~child.avail THEN [raised |-> "OSError", out |-> <<>>]
    ELSE [raised |-> "no", out |-> child.out]

\* run(cmd, args) with the default retry=0 (lines 45-75): one attempt; Popen
\* raises OSError when the utility cannot be executed
RunOnce(child) ==
    IF ~child.avail THEN [raised |-> "OSError", out |-> <<>>]
    ELSE IF IsSuccess(child.rc) THEN [raised |-> "no", out |-> child.out]
    ELSE [raised |-> "CommandFailed", out |-> <<>>]

Children(lines) ==
    [avail : BOOLEAN, rc : {0, 1}, out : SeqsUpTo(lines, 2)]

\* ---- network_interfaces
IpLines == {"2: eth0 inet 10.0.0.1/24", "1: lo inet 127.0.0.1/8", "Object \"addr\" is unknown"}
IpadmLines == {"ok:10.0.0.1/24", "ok:127.0.0.1/8", "ipadm: garbage"}

\* line 166: re.search(r'inet (\d+\.\d+\.\d+\.\d+)', line)
InetSearch(line) ==
    CASE line = "2: eth0 inet 10.0.0.1/24" -> "10.0.0.1"
      [] line = "1: lo inet 127.0.0.1/8" -> "127.0.0.1"
      [] OTHER -> NoMatch
\* line 213: re.match(r'ok:(\d+\.\d+\.\d+\.\d+)', line)
OkMatch(line) ==
    CASE line = "ok:10.0.0.1/24" -> "10.0.0.1"
      [] line = "ok:127.0.0.1/8" -> "127.0.0.1"
      [] OTHER -> NoMatch
\* lines 169, 216: addr.startswith("127.")
StartsWith127(addr) == addr \in {"127.0.0.1"}

RECURSIVE LinuxAddrs(_)
LinuxAddrs(lines) ==
    IF lines = <<>> THEN <<>>
    ELSE LET addr == InetSearch(lines[1]) IN
         (IF addr # NoMatch /\ ~StartsWith127(addr) THEN <<addr>> ELSE <<>>)
             \o LinuxAddrs(Tail(lines))
RECURSIVE SolarisAddrs(_)
SolarisAddrs(lines) ==
    IF lines = <<>> THEN <<>>
    ELSE LET addr == OkMatch(lines[1]) IN
         (IF addr # NoMatch /\ ~StartsWith127(addr) THEN <<addr>> ELSE <<>>)
             \o SolarisAddrs(Tail(lines))

\* lines 161-172
LinuxNetworkInterfaces(child) ==
    LET r == RunOnce(child) IN
    IF r.raised # "no" THEN [raised |-> r.raised, value |-> <<>>]
    ELSE [raised |-> "no", value |-> LinuxAddrs(r.out)]
\* lines 208-218
SolarisNetworkInterfaces(child) ==
    LET r == RunOnce(child) IN
    IF r.raised # "no" THEN [raised |-> r.raised, value |-> <<>>]
    ELSE [raised |-> "no", value |-> SolarisAddrs(r.out)]

\* ---- afs_mountpoint, lines 145-159
LinuxMountLines == {"AFS on /afs type afs (rw)", "/dev/sda1 on / type ext4 (rw)"}
SolarisMountLines == {"/afs on AFS read/write/setuid", "/ on rpool/ROOT/solaris read/write"}
\* line 148: r'^AFS on (/.\S+)'; line 150: r'(/.\S+) on AFS'
MountSearch(uname, line) ==
    CASE uname = "Linux" /\ line = "AFS on /afs type afs (rw)" -> "/afs"
      [] uname = "SunOS" /\ line = "/afs on AFS read/write/setuid" -> "/afs"
      [] OTHER -> NoMatch
\* line 154: re.search(pattern, output, re.M): the first line that matches
RECURSIVE FirstMount(_, _)
FirstMount(uname, lines) ==
    IF lines = <<>> THEN NoMatch
    ELSE IF MountSearch(uname, lines[1]) # NoMatch THEN MountSearch(uname, lines[1])
    ELSE FirstMount(uname, Tail(lines))

AfsMountpoint(uname, child) ==
    IF uname \notin {"Linux", "SunOS"}
    THEN [raised |-> "AssertionError", value |-> "None"]
    ELSE LET r == RunOnce(child) IN
         IF r.raised # "no" THEN [raised |-> r.raised, value |-> "None"]
         ELSE LET found == FirstMount(uname, r.out) IN
              [raised |-> "no", value |-> IF found # NoMatch THEN found ELSE "None"]

\* ---- is_loaded
ProcModulesLines == {"libafs 123 0 - Live", "ext4 456 1 - Live", ""}
ModinfoLines == {" Id Loadaddr Size Info Rev Module Name",
                 "  7 fffffffff80 1000 1 1 afs (afs filesystem)",
                 "  8 fffffffff90 2000 1 1 zfs (ZFS storage pool)",
                 "modinfo: garbage"}
\* line 177: line.split()[0]
FirstField(line) ==
    CASE line = "libafs 123 0 - Live" -> "libafs"
      [] line = "ext4 456 1 - Live" -> "ext4"
      [] OTHER -> NoMatch
\* line 225: re.match(r'\s*(\d+)\s+\S+\s+\S+\s+\S+\s+\d+\s+(\S+)', line)
ModinfoMatch(line) ==
    CASE line = "  7 fffffffff80 1000 1 1 afs (afs filesystem)" -> [mid |-> "7", mname |-> "afs"]
      [] line = "  8 fffffffff90 2000 1 1 zfs (ZFS storage pool)" -> [mid |-> "8", mname |-> "zfs"]
      [] OTHER -> [mid |-> "", mname |-> NoMatch]

\* lines 174-179; `file` is the content of /proc/modules
RECURSIVE LinuxIsLoadedLoop(_, _)
LinuxIsLoadedLoop(kmod, lines) ==
    IF lines = <<>> THEN [raised |-> "no", value |-> FALSE]
    ELSE IF FirstField(lines[1]) = NoMatch THEN [raised |-> "IndexError", value |-> FALSE]
    ELSE IF kmod = FirstField(lines[1]) THEN [raised |-> "no", value |-> TRUE]
    ELSE LinuxIsLoadedLoop(kmod, Tail(lines))
LinuxIsLoaded(kmod, file) ==
    IF ~file.avail THEN [raised |-> "IOError", value |-> FALSE]
    ELSE LinuxIsLoadedLoop(kmod, file.out)

\* the two kinds of value _solaris_is_loaded returns: the integer 0 (line 232)
\* and the text of the id column (line 228); no text equals an integer
PyInt(n) == [int |-> n]
PyStr(t) == [str |-> t]

\* lines 220-232
RECURSIVE SolarisIsLoadedLoop(_, _)
SolarisIsLoadedLoop(kmod, lines) ==
    IF lines = <<>> THEN [raised |-> "no", value |-> PyInt(0)]
    ELSE LET m == ModinfoMatch(lines[1]) IN
         IF m.mname = NoMatch THEN [raised |-> "AssertionError", value |-> PyInt(0)]
         ELSE IF kmod = m.mname THEN [raised |-> "no", value |-> PyStr(m.mid)]
         ELSE SolarisIsLoadedLoop(kmod, Tail(lines))
SolarisIsLoaded(kmod, child) ==
    LET r == RunOnce(child) IN
    IF r.raised # "no" THEN [raised |-> r.raised, value |-> PyInt(0)]
    ELSE SolarisIsLoadedLoop(kmod, IF r.out = <<>> THEN <<>> ELSE Tail(r.out))

\* ---- unload_module
LsmodLines == {"Module Size Used by", "libafs 123 0", "openafs 123 0", "ext4 456 1"}
\* line 204: re.findall(r'^(libafs|openafs)\s', output, re.M)
AfsModule(line) ==
    CASE line = "libafs 123 0" -> "libafs"
      [] line = "openafs 123 0" -> "openafs"
      [] OTHER -> NoMatch
RECURSIVE FindAllAfs(_)
FindAllAfs(lines) ==
    IF lines = <<>> THEN <<>>
    ELSE (IF AfsModule(lines[1]) # NoMatch THEN <<AfsModule(lines[1])>> ELSE <<>>)
             \o FindAllAfs(Tail(lines))

\* lines 202-206: `removed` are the modules rmmod was run for
LinuxUnloadModule(lsmod, rmmod) ==
    LET r == RunOnce(lsmod) IN
    IF r.raised # "no" THEN [raised |-> r.raised, value |-> <<>>]
    ELSE LET kmods == FindAllAfs(r.out) IN
         IF kmods = <<>> THEN [raised |-> "no", value |-> <<>>]
         ELSE IF RunOnce(rmmod).raised # "no"
              THEN [raised |-> RunOnce(rmmod).raised, value |-> <<>>]
              ELSE [raised |-> "no", value |-> kmods]
\* lines 285-288
SolarisUnloadModule(modinfo, modunload) ==
    LET l == SolarisIsLoaded("afs", modinfo) IN
    IF l.raised # "no" THEN [raised |-> l.raised, value |-> <<>>]
    ELSE IF l.value # PyInt(0)
         THEN IF RunOnce(modunload).raised # "no"
              THEN [raised |-> RunOnce(modunload).raised, value |-> <<>>]
              ELSE [raised |-> "no", value |-> <<"afs">>]
         ELSE [raised |-> "no", value |-> <<>>]

\* ---- configure_dynamic_linker
ConfLines == {"/usr/lib/openafs", "# comment", ""}
\* lines 181-200: the configuration file afterwards (the set of its lines;
\* "missing" when it does not exist) and the error raised
LinuxConfigureDynamicLinker(path, conf, ldconfig) ==
    LET kept == IF conf = {"missing"} THEN {}
                ELSE {l \in conf : l \notin {"# comment", ""}}
        written == {path} \cup kept
        r == RunOnce(ldconfig)
    IN [raised |-> r.raised, conf |-> written]
\* lines 279-283: the directory afterwards and the error raised
SolarisConfigureDynamicLinker(pathIsDir, f, spelling, listing, crle) ==
    IF ~pathIsDir THEN [raised |-> "AssertionError", fs |-> f]
    ELSE LET so == SoLoop(f, spelling, listing) IN
         IF so.raised # "no" THEN so
         ELSE [raised |-> RunOnce(crle).raised, fs |-> so.fs]


(***************************************************************************)
(* SpecOs: the module is loaded on a host, then one host fact is called.    *)
(***************************************************************************)
Supported == {"Linux", "SunOS"}
NotLoaded == [n \in {} |-> ""]
OneVersion == <<"foo", "so", "1", "0", "0">>
OsDirectories ==
    {[n \in SoNames |-> Absent],
     [n \in SoNames |-> IF n = OneVersion THEN RegularFile ELSE Absent],
     [n \in SoNames |-> IF n \in SoVersions THEN RegularFile ELSE Absent],
     [n \in SoNames |-> IF n \in {OneVersion, <<"foo", "so">>} THEN RegularFile ELSE Absent]}
OsConfFiles == {{"missing"}, {"# comment", "/usr/lib/openafs"}, {""}}
LibPaths == {"/usr/lib/openafs", "/opt/openafs/lib"}

OsInit ==
    /\ os \in [uname : Unames, load : {"loading"}, error : {"no"},
               bound : {NotLoaded}, conf : OsConfFiles]
    /\ fact = <<>>
    /\ fs \in OsDirectories
    /\ fs0 = fs
    /\ fsop = <<>>
    /\ fdir \in DirSpellings
    /\ fcalls = 0
    /\ RunIdle /\ WhichIdle /\ BldIdle

notOsFsVars == <<runVars, whichVars, bldVars, fs0, fsop, fdir, fcalls>>

\* lines 290-302: the module's top level
LoadModule ==
    /\ os.load = "loading"
    /\ os' = IF os.uname = "Linux"
             THEN [os EXCEPT !.load = "loaded", !.bound = LinuxBinding]
             ELSE IF os.uname = "SunOS"
             THEN [os EXCEPT !.load = "loaded", !.bound = SolarisBinding]
             ELSE [os EXCEPT !.load = "failed",
                             !.error = RaiseUnsupported({"AssertionError", "uname"})]
    /\ UNCHANGED <<fact, fs, notOsFsVars>>

AnyLine(lines, Matches(_)) == \E i \in 1 .. Len(lines) : Matches(lines[i])
InetLine(l) == InetSearch(l) # NoMatch
OkLine(l) == OkMatch(l) # NoMatch
ModuleLine(l) == FirstField(l) # NoMatch
ModinfoLine(l) == ModinfoMatch(l).mname # NoMatch

\* network_interfaces()
NetworkInterfacesCall ==
    /\ os.load = "loaded"
    /\ fact = <<>>
    /\ LET impl == os.bound["network_interfaces"] IN
       \E child \in Children(IF impl = "_linux_network_interfaces" THEN IpLines
                             ELSE IpadmLines) :
          LET r == IF impl = "_linux_network_interfaces"
                   THEN LinuxNetworkInterfaces(child)
                   ELSE SolarisNetworkInterfaces(child)
          IN fact' = [op |-> "network_interfaces", impl |-> impl,
                      utilOk |-> child.avail /\ child.rc = 0,
                      parsable |-> IF impl = "_linux_network_interfaces"
                                   THEN AnyLine(child.out, InetLine)
                                   ELSE AnyLine(child.out, OkLine),
                      raised |-> r.raised, value |-> r.value,
                      lines |-> Len(child.out)]
    /\ UNCHANGED <<os, fs, notOsFsVars>>

\* is_loaded(kmod)
IsLoadedCall ==
    /\ os.load = "loaded"
    /\ fact = <<>>
    /\ LET impl == os.bound["is_loaded"] IN
       \E kmod \in {"libafs", "afs"} :
       \E child \in Children(IF impl = "_linux_is_loaded" THEN ProcModulesLines
                             ELSE ModinfoLines) :
          LET r == IF impl = "_linux_is_loaded" THEN LinuxIsLoaded(kmod, child)
                   ELSE SolarisIsLoaded(kmod, child)
          IN fact' = [op |-> "is_loaded", impl |-> impl,
                      utilOk |-> child.avail /\
                                 (impl = "_linux_is_loaded" \/ child.rc = 0),
                      parsable |-> IF impl = "_linux_is_loaded"
                                   THEN AnyLine(child.out, ModuleLine)
                                   ELSE AnyLine(child.out, ModinfoLine),
                      raised |-> r.raised, value |-> r.value,
                      lines |-> Len(child.out)]
    /\ UNCHANGED <<os, fs, notOsFsVars>>

\* unload_module()
UnloadModuleCall ==
    /\ os.load = "loaded"
    /\ fact = <<>>
    /\ LET impl == os.bound["unload_module"] IN
       \E child \in Children(IF impl = "_linux_unload_module" THEN LsmodLines
                             ELSE ModinfoLines) :
       \E unload \in Children({}) :
          LET r == IF impl = "_linux_unload_module" THEN LinuxUnloadModule(child, unload)
                   ELSE SolarisUnloadModule(child, unload)
              ran == IF impl = "_linux_unload_module"
                     THEN RunOnce(child).raised = "no" /\ FindAllAfs(child.out) # <<>>
                     ELSE SolarisIsLoaded("afs", child).raised = "no"
                          /\ SolarisIsLoaded("afs", child).value # PyInt(0)
          IN fact' = [op |-> "unload_module", impl |-> impl,
                      utilOk |-> /\ child.avail /\ child.rc = 0
                                 /\ ran => (unload.avail /\ unload.rc = 0),
                      parsable |-> TRUE,
                      raised |-> r.raised, value |-> r.value,
                      lines |-> Len(child.out)]
    /\ UNCHANGED <<os, fs, notOsFsVars>>

\* configure_dynamic_linker(path)
ConfigureDynamicLinkerCall ==
    /\ os.load = "loaded"
    /\ fact = <<>>
    /\ LET impl == os.bound["configure_dynamic_linker"] IN
       \E child \in Children({}) :
          IF impl = "_linux_configure_dynamic_linker"
          THEN \E path \in LibPaths :
                  LET r == LinuxConfigureDynamicLinker(path, os.conf, child) IN
                  /\ os' = [os EXCEPT !.conf = r.conf]
                  /\ fs' = fs
                  /\ fact' = [op |-> "configure_dynamic_linker", impl |-> impl,
                              utilOk |-> child.avail /\ child.rc = 0,
                              parsable |-> TRUE,
                              raised |-> r.raised, value |-> <<>>,
                              lines |-> Len(child.out)]
          ELSE \E pathIsDir \in BOOLEAN, listing \in ListDir(fs) :
                  LET r == SolarisConfigureDynamicLinker(pathIsDir, fs, fdir,
                                                         listing, child)
                      ran == pathIsDir /\ SoLoop(fs, fdir, listing).raised = "no"
                  IN
                  /\ os' = os
                  /\ fs' = r.fs
                  /\ fact' = [op |-> "configure_dynamic_linker", impl |-> impl,
                              utilOk |-> ran => (child.avail /\ child.rc = 0),
                              parsable |-> TRUE,
                              raised |-> r.raised, value |-> <<>>,
                              lines |-> Len(child.out)]
    /\ UNCHANGED notOsFsVars

\* afs_mountpoint()
AfsMountpointCall ==
    /\ os.load = "loaded"
    /\ fact = <<>>
    /\ \E child \in Children(IF os.uname = "Linux" THEN LinuxMountLines
                             ELSE SolarisMountLines) :
          LET r == AfsMountpoint(os.uname, child) IN
          fact' = [op |-> "afs_mountpoint", impl |-> "afs_mountpoint",
                   utilOk |-> child.avail /\ child.rc = 0,
                   parsable |-> FirstMount(os.uname, child.out) # NoMatch,
                   raised |-> r.raised, value |-> r.value,
                      lines |-> Len(child.out)]
    /\ UNCHANGED <<os, fs, notOsFsVars>>

OsNext ==
    \/ LoadModule
    \/ NetworkInterfacesCall
    \/ IsLoadedCall
    \/ UnloadModuleCall
    \/ ConfigureDynamicLinkerCall
    \/ AfsMountpointCall

SpecOs == OsInit /\ [][OsNext]_vars

\* C8 as claimed: every host-facts operation fails loudly: when the utility it
\* runs is unavailable or exits non-zero, or its output holds no line that the
\* operation's pattern can parse, the operation raises an error; it returns
\* (an empty list, None, False, 0) only when the utility ran and its output
\* was parsed.
C8_HostFactsFailLoudly ==
    fact # <<>> => ((~fact.utilOk \/ ~fact.parsable) => fact.raised # "no")

\* C8 amended: an operation raises when the utility it runs is unavailable or
\* exits non-zero; when the utility succeeds and its output holds nothing the
\* pattern matches, network_interfaces returns the empty list and
\* afs_mountpoint returns None without raising, and is_loaded either returns
\* its not-loaded value (False on Linux, 0 on SunOS) or raises on a line it
\* cannot split (IndexError on Linux, AssertionError on SunOS).
C8_RaisesOnUtilityFailureDefaultsOnNoMatch ==
    fact # <<>> =>
       /\ ~fact.utilOk => fact.raised # "no"
       /\ (fact.utilOk /\ ~fact.parsable) =>
             CASE fact.op = "network_interfaces" ->
                     fact.raised = "no" /\ fact.value = <<>>
               [] fact.op = "afs_mountpoint" ->
                     fact.raised = "no" /\ fact.value = "None"
               [] fact.op = "is_loaded" /\ fact.impl = "_linux_is_loaded" ->
                     \/ fact.raised = "IndexError"
                     \/ fact.raised = "no" /\ fact.value = FALSE
               [] fact.op = "is_loaded" /\ fact.impl = "_solaris_is_loaded" ->
                     \/ fact.raised = "AssertionError"
                     \/ fact.raised = "no" /\ fact.value = PyInt(0)
               [] OTHER -> TRUE

\* a utility that ran with exit code 0 and printed lines, none of which the
\* pattern matches: network_interfaces returned the empty list
C8_Witness ==
    /\ fact # <<>>
    /\ fact.op = "network_interfaces"
    /\ fact.utilOk /\ ~fact.parsable /\ fact.lines > 0
    /\ fact.raised = "no"

\* C9 as claimed: the implementation is selected once when the module is
\* loaded: on Linux or SunOS the four names are bound to the implementations
\* of that one family; on any other kernel loading raises the
\* unsupported-operating-system error, and no host-facts function is ever
\* called on such a host.
C9_LoadBindsOneFamilyOrRaisesUnsupported ==
    /\ os.load = "loaded" =>
          \/ os.uname = "Linux" /\ os.bound = LinuxBinding
          \/ os.uname = "SunOS" /\ os.bound = SolarisBinding
    /\ os.load = "failed" =>
          /\ os.uname \notin Supported
          /\ os.error = "AssertionError: Unsupported operating system"
    /\ os.uname \notin Supported => (os.load # "loaded" /\ fact = <<>>)

\* the part of C9 that the code keeps: the binding is that of one family,
\* loading fails on every other kernel, and a bound name is never rebound
C9_BindingIsOneFamily ==
    /\ os.load = "loaded" =>
          \/ os.uname = "Linux" /\ os.bound = LinuxBinding
          \/ os.uname = "SunOS" /\ os.bound = SolarisBinding
    /\ os.load = "failed" => os.uname \notin Supported
    /\ os.uname \notin Supported => (os.load # "loaded" /\ fact = <<>>)

C9_BindingNeverChanges == [][os.load = "loaded" => os'.bound = os.bound]_vars


(***************************************************************************)
(* rebuild(chdir=None, cf=None, target=None, clean=True), build.py 29-74.  *)
(***************************************************************************)
NoString == "<None>"
Running == -1

\* os.system(cmd): the wait status of the shell that ran cmd: the exit code in
\* the high byte, or the number of the signal that killed it in the low byte
WaitStatus(child) == IF child.signal # 0 THEN child.signal ELSE child.exit * 256

\* sys.exit(code): the exit status the process ends with is the low byte of code
ProcessExitStatus(code) == code % 256

\* lines 45-55: the default configure options
DefaultOptions(uname) ==
    <<"--enable-debug", "--enable-debug-kernel", "--disable-optimize",
      "--disable-optimize-kernel", "--without-dot", "--enable-transarc-paths">>
        \o (IF uname = "Linux" THEN <<"--enable-checking">> ELSE <<>>)

\* lines 57-61: the default target
DefaultTarget(cf) == IF InSeq("--enable-transarc-paths", cf) THEN "dest" ELSE "all"

\* lines 63-68: the command of the clean step, if any
CleanCommand(clean, isGit, hasMakefile) ==
    IF ~clean THEN <<>>
    ELSE IF isGit THEN <<"git clean -f -d -x -q">>
    ELSE IF hasMakefile THEN <<"make clean">>
    ELSE <<>>

BuildChildren == {[exit |-> 0, signal |-> 0], [exit |-> 1, signal |-> 0],
                  [exit |-> 2, signal |-> 0], [exit |-> 0, signal |-> 9]}

\* run(cmd), lines 29-34: b after the command ran with outcome `child`; the
\* process goes on to `next` when os.system returned 0 and exits otherwise
BuildRun(b, cmd, child, next) ==
    LET code == WaitStatus(child)
        ran == [b EXCEPT !.ran = Append(b.ran, cmd), !.codes = Append(b.codes, child)]
    IN IF code # 0
       THEN [ran EXCEPT !.pc = "exited", !.exit = ProcessExitStatus(code)]
       ELSE [ran EXCEPT !.pc = next]

BuildInit ==
    /\ bld \in [pc : {"start"},
                in : [chdir : {NoString, "/src/openafs"},
                      cf : {<<NoString>>, <<"--prefix=/usr">>},
                      target : {NoString, "install"},
                      clean : BOOLEAN],
                env : [uname : {"Linux", "SunOS"}, isGit : BOOLEAN, hasMakefile : BOOLEAN],
                cwd : {"/home"}, origdir : {NoString},
                cf : {<<>>}, target : {NoString},
                ran : {<<>>}, codes : {<<>>}, exit : {Running}]
    /\ RunIdle /\ FsIdle /\ WhichIdle /\ OsIdle

\* lines 37-61: change directory, default the options and the target
BuildStart ==
    /\ bld.pc = "start"
    /\ LET cf == IF bld.in.cf = <<NoString>> THEN DefaultOptions(bld.env.uname)
                 ELSE bld.in.cf
       IN bld' = [bld EXCEPT
                    !.origdir = IF bld.in.chdir # NoString THEN bld.cwd ELSE NoString,
                    !.cwd = IF bld.in.chdir # NoString THEN bld.in.chdir ELSE bld.cwd,
                    !.cf = cf,
                    !.target = IF bld.in.target = NoString THEN DefaultTarget(cf)
                               ELSE bld.in.target,
                    !.pc = "clean"]
    /\ UNCHANGED notBldVars

\* lines 63-68
BuildClean ==
    /\ bld.pc = "clean"
    /\ LET cmd == CleanCommand(bld.in.clean, bld.env.isGit, bld.env.hasMakefile) IN
       IF cmd = <<>> THEN bld' = [bld EXCEPT !.pc = "regen"]
       ELSE \E child \in BuildChildren : bld' = BuildRun(bld, cmd, child, "regen")
    /\ UNCHANGED notBldVars

\* line 69
BuildRegen ==
    /\ bld.pc = "regen"
    /\ \E child \in BuildChildren : bld' = BuildRun(bld, <<"./regen.sh">>, child, "configure")
    /\ UNCHANGED notBldVars

\* line 70
BuildConfigure ==
    /\ bld.pc = "configure"
    /\ \E child \in BuildChildren :
          bld' = BuildRun(bld, <<"./configure">> \o bld.cf, child, "make")
    /\ UNCHANGED notBldVars

\* line 71
BuildMake ==
    /\ bld.pc = "make"
    /\ \E child \in BuildChildren :
          bld' = BuildRun(bld, <<"make", bld.target>>, child, "finish")
    /\ UNCHANGED notBldVars

\* lines 72-74
BuildFinish ==
    /\ bld.pc = "finish"
    /\ bld' = [bld EXCEPT !.cwd = IF bld.origdir # NoString THEN bld.origdir ELSE bld.cwd,
                          !.pc = "done"]
    /\ UNCHANGED notBldVars

BuildNext ==
    \/ BuildStart
    \/ BuildClean
    \/ BuildRegen
    \/ BuildConfigure
    \/ BuildMake
    \/ BuildFinish

SpecBuild == BuildInit /\ [][BuildNext]_vars

\* the steps of a rebuild in their fixed order, by the program each runs
StepOf(cmd) ==
    CASE cmd[1] \in {"git clean -f -d -x -q", "make clean"} -> 1
      [] cmd[1] = "./regen.sh" -> 2
      [] cmd[1] = "./configure" -> 3
      [] cmd[1] = "make" -> 4
Failed(child) == child.exit # 0 \/ child.signal # 0

\* the part of C10 about the order: the steps run in the order clean, regen,
\* configure, make, the clean step only when clean is set (git clean in a git
\* checkout, else make clean when a Makefile exists); a step starts only if
\* every earlier one succeeded; the first failure ends the process before any
\* later step and before the change back to the original directory
C10_StepsInOrderStopAtFirstFailure ==
    /\ \A i \in 1 .. Len(bld.ran) :
          /\ \A j \in 1 .. (i - 1) : StepOf(bld.ran[j]) < StepOf(bld.ran[i])
          /\ \A j \in 1 .. (i - 1) : ~Failed(bld.codes[j])
          /\ StepOf(bld.ran[i]) = 1 =>
                /\ bld.in.clean
                /\ bld.ran[i] = IF bld.env.isGit THEN <<"git clean -f -d -x -q">>
                                ELSE <<"make clean">>
                /\ ~bld.env.isGit => bld.env.hasMakefile
          /\ (StepOf(bld.ran[i]) > 2 \/ (StepOf(bld.ran[i]) = 2 /\ i = 2)) =>
                StepOf(bld.ran[i - 1]) = StepOf(bld.ran[i]) - 1
    /\ bld.pc = "exited" <=> (bld.ran # <<>> /\ Failed(Last(bld.codes)))
    /\ bld.pc = "exited" =>
          /\ bld.exit # Running
          /\ bld.in.chdir # NoString => bld.cwd = bld.in.chdir
    /\ bld.pc = "done" =>
          /\ StepOf(Last(bld.ran)) = 4
          /\ bld.cwd = "/home"

\* C10 as claimed: rebuild runs clean, regen, configure, make in that order, a
\* step is started only if every earlier step exited with code 0, and the
\* first step that exits non-zero ends the process with that code, without
\* running a later step and without changing back to the original directory.
C10_FirstFailureEndsProcessWithItsCode ==
    /\ C10_StepsInOrderStopAtFirstFailure
    /\ (bld.pc = "exited" /\ Last(bld.codes).signal = 0) =>
          bld.exit = Last(bld.codes).exit


=============================================================================
